---- MODULE Spec2Model ----
(***************************************************************************)
(* Model of src/main.py: a toy LWE-style public-key scheme for one bit.    *)
(*                                                                         *)
(* The five library functions (setup, secret_key_gen, public_key_gen,      *)
(* encrypt, decrypt) are operators computed as the Python/numpy code       *)
(* computes them.  A function that draws from the random source is an      *)
(* operator yielding the SET of results it can return, one per outcome of  *)
(* the random source.  Two specifications use them:                        *)
(*   Spec      a caller invoking the library functions, on the values the  *)
(*             earlier calls returned or on values of its own;             *)
(*   MainSpec  the demo under  if __name__ == "__main__".                  *)
(*                                                                         *)
(* A result is a record whose field err is "none" or the name of the       *)
(* Python exception the call raises; "not_called" marks a call that has    *)
(* not been made.                                                          *)
(***************************************************************************)
EXTENDS Integers, Sequences, FiniteSets, TLC

VARIABLES pc, params, setupOut, sk, pkgen, enc, dec, draws, output

vars == <<pc, params, setupOut, sk, pkgen, enc, dec, draws, output>>

(***************************************************************************)
(* Bounds of the model.                                                    *)
(***************************************************************************)
\* number of distinct streams the random source can produce for one draw
NumStreams == 3
\* largest base dimension n of a parameter tuple a caller passes
MaxN == 2
\* largest lattice dimension N of a parameter tuple a caller passes
MaxRows == 2

(***************************************************************************)
(* Arithmetic on naturals of any size, as little-endian base-1000 digit    *)
(* sequences: q^(2n+1) = 10^21 does not fit a machine integer.             *)
(***************************************************************************)
RECURSIVE BigMul(_, _, _)
BigMul(x, k, carry) ==
    IF x = <<>>
    THEN IF carry = 0 THEN <<>> ELSE <<carry>>
    ELSE LET t == Head(x) * k + carry
         IN  <<t % 1000>> \o BigMul(Tail(x), k, t \div 1000)

RECURSIVE BigPow(_, _)
BigPow(b, ex) == IF ex = 0 THEN <<1>> ELSE BigMul(BigPow(b, ex - 1), b, 0)

RECURSIVE BigLess(_, _)
BigLess(x, y) ==
    IF Len(x) # Len(y) THEN Len(x) < Len(y)
    ELSE IF x = <<>> THEN FALSE
    ELSE LET k == Len(x)
         IN  IF x[k] # y[k] THEN x[k] < y[k]
             ELSE BigLess(SubSeq(x, 1, k - 1), SubSeq(y, 1, k - 1))

RECURSIVE LeastPowerOfTwo(_, _, _)
LeastPowerOfTwo(p2, target, k) ==
    IF ~BigLess(p2, target) THEN k
    ELSE LeastPowerOfTwo(BigMul(p2, 2, 0), target, k + 1)

\* int(math.ceil((2 * n + 1) * math.log(q, 2))) for q >= 1, n >= 0: the least
\* k with k >= (2n+1)*log2(q), that is the least k with 2^k >= q^(2n+1).
LatticeDimension(q, n) == LeastPowerOfTwo(<<1>>, BigPow(q, 2 * n + 1), 0)

(***************************************************************************)
(* Vectors and numpy's elementwise arithmetic.                             *)
(***************************************************************************)
RECURSIVE SumSeq(_)
SumSeq(v) == IF v = <<>> THEN 0 ELSE Head(v) + SumSeq(Tail(v))

\* np.dot of two vectors of one length
Dot(x, y) == SumSeq([i \in 1..Len(x) |-> x[i] * y[i]])

\* the length numpy broadcasts two 1-d operands to, -1 when it cannot
BroadcastLen(a, b) ==
    IF a = b THEN a
    ELSE IF a = 1 THEN b
    ELSE IF b = 1 THEN a
    ELSE -1

\* element i of a 1-d operand stretched by broadcasting
At(v, i) == IF Len(v) = 1 THEN v[1] ELSE v[i]

(***************************************************************************)
(* The random source.                                                      *)
(***************************************************************************)
\* value number i (from 0) of stream s, before reduction into the range
StreamValue(s, i) == (s \div 2) * i + s

\* np.random.randint(lo, hi, size): the results the call can have
randint(lo, hi, size) ==
    IF size < 0 THEN {[err |-> "ValueError", val |-> <<>>]}
    ELSE IF size = 0 THEN {[err |-> "none", val |-> <<>>]}
    ELSE IF lo >= hi THEN {[err |-> "ValueError", val |-> <<>>]}
    ELSE {[err |-> "none",
           val |-> [i \in 1..size |-> lo + (StreamValue(s, i - 1) % (hi - lo))]] :
             s \in 0..(NumStreams - 1)}

(***************************************************************************)
(* setup                                                                   *)
(***************************************************************************)
setup(bit_length, mod_size, base_value) ==
    IF mod_size < 0
    THEN [err |-> "ValueError", val |-> <<>>, drawn |-> 0]
    ELSE LET q == 10
             d == 10
             n == 10
             chi == 1
             N == LatticeDimension(q, n)
         IN  [err |-> "none", val |-> <<q, d, n, N, chi>>, drawn |-> 1]

(***************************************************************************)
(* secret_key_gen                                                          *)
(***************************************************************************)
\* secret_key_gen without the assignment secret_key[0] = 1
secret_key_gen_no_leading_one(p) ==
    LET q == p[1]
        n == p[3]
    IN  {IF rnd.err # "none"
           THEN [err |-> rnd.err, val |-> <<>>, drawn |-> 0]
         ELSE [err |-> "none", val |-> rnd.val, drawn |-> Len(rnd.val)] :
           rnd \in randint(0, q, n + 1)}

secret_key_gen(p) ==
    LET q == p[1]
        n == p[3]
    IN  {IF rnd.err # "none"
           THEN [err |-> rnd.err, val |-> <<>>, drawn |-> 0]
         ELSE IF rnd.val = <<>>
           THEN [err |-> "IndexError", val |-> <<>>, drawn |-> 0]
         ELSE [err |-> "none", val |-> [rnd.val EXCEPT ![1] = 1],
               drawn |-> Len(rnd.val)] :
           rnd \in randint(0, q, n + 1)}

(***************************************************************************)
(* public_key_gen                                                          *)
(***************************************************************************)
\* flat.reshape(N, n)
Reshape(flat, N, n) == [i \in 1..N |-> [j \in 1..n |-> flat[(i - 1) * n + j]]]

\* b = np.dot(A, sk[1:]) + 2 * e
BVector(A, e, s) == [i \in 1..Len(A) |-> Dot(A[i], Tail(s)) + 2 * e[i]]

\* np.hstack((b, A)) % q: the sign of A lost
PublicKeyMatrix_plus_A(A, e, s, q) ==
    LET b == BVector(A, e, s)
    IN  [i \in 1..Len(A) |->
           <<b[i] % q>> \o [j \in 1..Len(A[i]) |-> A[i][j] % q]]

\* np.hstack((b % q, -A)): only b reduced
PublicKeyMatrix_b_only_reduced(A, e, s, q) ==
    LET b == BVector(A, e, s)
    IN  [i \in 1..Len(A) |->
           <<b[i] % q>> \o [j \in 1..Len(A[i]) |-> 0 - A[i][j]]]

\* np.hstack((b, -A)) % q
PublicKeyMatrix(A, e, s, q) ==
    LET b == BVector(A, e, s)
    IN  [i \in 1..Len(A) |->
           <<b[i] % q>> \o [j \in 1..Len(A[i]) |-> (0 - A[i][j]) % q]]

\* np.any in place of np.all
CorrectnessCheck_any(pk, e, s, q) ==
    \E i \in 1..Len(pk) : Dot(pk[i], s) % q = (2 * e[i]) % q

\* np.all(np.dot(public_key, sk) % q == (2 * e) % q)
CorrectnessCheck(pk, e, s, q) ==
    \A i \in 1..Len(pk) : Dot(pk[i], s) % q = (2 * e[i]) % q

public_key_gen(p, s) ==
    LET q == p[1]
        n == p[3]
        N == p[4]
        Fail(x, k) == [err |-> x, val |-> <<>>, A |-> <<>>, e |-> <<>>, drawn |-> k]
    IN  {IF ra.err # "none" THEN Fail(ra.err, 0)
         ELSE IF re.err # "none" THEN Fail(re.err, Len(ra.val))
         ELSE LET A == Reshape(ra.val, N, n)
                  e == re.val
                  k == Len(ra.val) + Len(re.val)
              IN  IF Len(s) # n + 1
                  THEN [err |-> "ValueError", val |-> <<>>, A |-> A, e |-> e, drawn |-> k]
                  ELSE LET public_key == PublicKeyMatrix(A, e, s, q)
                       IN  IF CorrectnessCheck(public_key, e, s, q)
                           THEN [err |-> "none", val |-> public_key,
                                 A |-> A, e |-> e, drawn |-> k]
                           ELSE [err |-> "AssertionError", val |-> <<>>,
                                 A |-> A, e |-> e, drawn |-> k] :
           ra \in randint(0, q, N * n), re \in randint(0, q, N)}

(***************************************************************************)
(* encrypt                                                                 *)
(***************************************************************************)
\* np.dot(pk.T, r)
DotTranspose(pk, r) ==
    [j \in 1..Len(pk[1]) |-> SumSeq([i \in 1..Len(pk) |-> pk[i][j] * r[i]])]

\* lines 96-107 of encrypt, for one result rnd of the draw of r
EncryptWith(p, pk, message, rnd) ==
    LET q == p[1]
        n == p[3]
        Fail(x, r, k) == [err |-> x, val |-> <<>>, r |-> r, drawn |-> k]
    IN  IF rnd.err # "none" THEN Fail(rnd.err, <<>>, 0)
        ELSE LET r == rnd.val
                 message_vector == <<message>> \o [j \in 1..n |-> 0]
             IN  IF Len(pk) # Len(r)
                 THEN Fail("ValueError", r, Len(r))
                 ELSE LET t == DotTranspose(pk, r)
                          len == BroadcastLen(Len(message_vector), Len(t))
                      IN  IF len < 0
                          THEN Fail("ValueError", r, Len(r))
                          ELSE [err |-> "none",
                                val |-> [j \in 1..len |->
                                           (At(message_vector, j) + At(t, j)) % q],
                                r |-> r, drawn |-> Len(r)]

\* encrypt with the message checked after r is drawn
encrypt_check_after_draw(p, pk, message) ==
    {IF rnd.err = "none" /\ message \notin {0, 1}
       THEN [err |-> "AssertionError", val |-> <<>>, r |-> rnd.val,
             drawn |-> Len(rnd.val)]
       ELSE EncryptWith(p, pk, message, rnd) :
       rnd \in randint(0, 2, p[4])}

encrypt(p, pk, message) ==
    IF message \notin {0, 1}
    THEN {[err |-> "AssertionError", val |-> <<>>, r |-> <<>>, drawn |-> 0]}
    ELSE {EncryptWith(p, pk, message, rnd) : rnd \in randint(0, 2, p[4])}

(***************************************************************************)
(* decrypt                                                                 *)
(***************************************************************************)
\* decrypt without the final reduction modulo 2
decrypt_without_mod_2(p, s, ciphertext) ==
    LET q == p[1]
        len == BroadcastLen(Len(ciphertext), Len(s))
    IN  IF len < 0
        THEN [err |-> "ValueError", val |-> -1]
        ELSE [err |-> "none",
              val |-> SumSeq([i \in 1..len |-> At(ciphertext, i) * At(s, i)]) % q]

decrypt(p, s, ciphertext) ==
    LET q == p[1]
        len == BroadcastLen(Len(ciphertext), Len(s))
    IN  IF len < 0
        THEN [err |-> "ValueError", val |-> -1]
        ELSE [err |-> "none",
              val |-> (SumSeq([i \in 1..len |-> At(ciphertext, i) * At(s, i)]) % q) % 2]

(***************************************************************************)
(* A caller of the library: Spec.                                          *)
(***************************************************************************)
NotCalled == [err |-> "not_called", val |-> <<>>, drawn |-> 0]

NoPublicKey ==
    [err |-> "not_called", val |-> <<>>, A |-> <<>>, e |-> <<>>, drawn |-> 0,
     skArg |-> <<>>]

NoCiphertext ==
    [err |-> "not_called", val |-> <<>>, r |-> <<>>, drawn |-> 0, msg |-> 0]

NoDecryption ==
    [err |-> "not_called", val |-> -1, skArg |-> <<>>, ctArg |-> <<>>]

\* the parameter tuples (q, d, n, N, chi) a caller passes
ParamInputs ==
    {<<q, 10, n, N, 1>> : q \in {0, 1, 2, 3, 10}, n \in (-2)..MaxN, N \in 1..MaxRows}

\* the arguments a caller passes to setup
SetupArgInputs == {-1, 0, 1, 8}

\* the messages a caller passes to encrypt
MessageInputs == {-1, 0, 1, 2}

\* secret-key vectors that secret_key_gen did not produce
ForeignKeys(p) ==
    {[i \in 1..k |-> v] : v \in {0, 1, 2}, k \in {p[3] + 1, p[3] + 2} \cap (0..(MaxN + 2))}

\* vectors a caller passes to decrypt
DecryptVectors == {[i \in 1..k |-> v + i] : v \in {0, 1}, k \in 0..(MaxN + 1)}

Init ==
    /\ pc = "lib"
    /\ params \in ParamInputs
    /\ setupOut = NotCalled
    /\ sk = NotCalled
    /\ pkgen = NoPublicKey
    /\ enc = NoCiphertext
    /\ dec = NoDecryption
    /\ draws = 0
    /\ output = <<>>

Fresh ==
    /\ pc = "lib"
    /\ setupOut.err = "not_called"
    /\ dec.err = "not_called"

SetupCall ==
    /\ Fresh
    /\ sk.err = "not_called"
    /\ pkgen.err = "not_called"
    /\ \E bit_length \in SetupArgInputs, mod_size \in SetupArgInputs,
          base_value \in SetupArgInputs :
         LET res == setup(bit_length, mod_size, base_value)
         IN  /\ setupOut' = res
             /\ draws' = draws + res.drawn
    /\ UNCHANGED <<pc, params, sk, pkgen, enc, dec, output>>

SecretKeyGenCall ==
    /\ Fresh
    /\ sk.err = "not_called"
    /\ pkgen.err = "not_called"
    /\ \E res \in secret_key_gen(params) :
         /\ sk' = res
         /\ draws' = draws + res.drawn
    /\ UNCHANGED <<pc, params, setupOut, pkgen, enc, dec, output>>

PublicKeyGenCall ==
    /\ Fresh
    /\ pkgen.err = "not_called"
    /\ \E s \in (IF sk.err = "none" THEN {sk.val}
                 ELSE IF sk.err = "not_called" THEN ForeignKeys(params)
                 ELSE {}) :
         \E res \in public_key_gen(params, s) :
           /\ pkgen' = [err |-> res.err, val |-> res.val, A |-> res.A, e |-> res.e,
                        drawn |-> res.drawn, skArg |-> s]
           /\ draws' = draws + res.drawn
    /\ UNCHANGED <<pc, params, setupOut, sk, enc, dec, output>>

EncryptCall ==
    /\ Fresh
    /\ pkgen.err = "none"
    /\ enc.err = "not_called"
    /\ \E message \in MessageInputs :
         \E res \in encrypt(params, pkgen.val, message) :
           /\ enc' = [err |-> res.err, val |-> res.val, r |-> res.r,
                      drawn |-> res.drawn, msg |-> message]
           /\ draws' = draws + res.drawn
    /\ UNCHANGED <<pc, params, setupOut, sk, pkgen, dec, output>>

\* decrypt on the ciphertext encrypt returned, with the key the public key was made for
DecryptCall ==
    /\ Fresh
    /\ enc.err = "none"
    /\ LET res == decrypt(params, pkgen.skArg, enc.val)
       IN  dec' = [err |-> res.err, val |-> res.val,
                   skArg |-> pkgen.skArg, ctArg |-> enc.val]
    /\ UNCHANGED <<pc, params, setupOut, sk, pkgen, enc, draws, output>>

\* decrypt on a key and a ciphertext of the caller's own
DecryptForeignCall ==
    /\ Fresh
    /\ sk.err = "not_called"
    /\ pkgen.err = "not_called"
    /\ params[1] >= 1
    /\ \E s \in DecryptVectors, c \in DecryptVectors :
         LET res == decrypt(params, s, c)
         IN  dec' = [err |-> res.err, val |-> res.val, skArg |-> s, ctArg |-> c]
    /\ UNCHANGED <<pc, params, setupOut, sk, pkgen, enc, draws, output>>

Next ==
    \/ SetupCall
    \/ SecretKeyGenCall
    \/ PublicKeyGenCall
    \/ EncryptCall
    \/ DecryptCall
    \/ DecryptForeignCall

Spec == Init /\ [][Next]_vars

(***************************************************************************)
(* The demo entry point: MainSpec.                                         *)
(***************************************************************************)
BIT == 0

\* the print statements with the secret key and the ciphertext exchanged
OutputLine_swapped(k) ==
    IF k = 1 THEN [label |-> "Message bit:", value |-> <<BIT>>]
    ELSE IF k = 2 THEN [label |-> "Public key [0]:", value |-> pkgen.val[1]]
    ELSE IF k = 3 THEN [label |-> "Public key [1]:", value |-> pkgen.val[2]]
    ELSE IF k = 4 THEN [label |-> "Ciphertext:", value |-> enc.val]
    ELSE IF k = 5 THEN [label |-> "Secret key:", value |-> sk.val]
    ELSE [label |-> "Decrypted bit:", value |-> <<dec.val>>]

\* the k-th print statement of the demo
OutputLine(k) ==
    IF k = 1 THEN [label |-> "Message bit:", value |-> <<BIT>>]
    ELSE IF k = 2 THEN [label |-> "Public key [0]:", value |-> pkgen.val[1]]
    ELSE IF k = 3 THEN [label |-> "Public key [1]:", value |-> pkgen.val[2]]
    ELSE IF k = 4 THEN [label |-> "Secret key:", value |-> sk.val]
    ELSE IF k = 5 THEN [label |-> "Ciphertext:", value |-> enc.val]
    ELSE [label |-> "Decrypted bit:", value |-> <<dec.val>>]

MainInit ==
    /\ pc = "main_setup"
    /\ params = <<>>
    /\ setupOut = NotCalled
    /\ sk = NotCalled
    /\ pkgen = NoPublicKey
    /\ enc = NoCiphertext
    /\ dec = NoDecryption
    /\ draws = 0
    /\ output = <<>>

MainSetup ==
    /\ pc = "main_setup"
    /\ LET res == setup(1, 1, 1)
       IN  /\ setupOut' = res
           /\ draws' = draws + res.drawn
           /\ params' = IF res.err = "none" THEN res.val ELSE params
           /\ pc' = IF res.err = "none" THEN "main_secret_key_gen" ELSE "main_failed"
    /\ UNCHANGED <<sk, pkgen, enc, dec, output>>

MainSecretKeyGen ==
    /\ pc = "main_secret_key_gen"
    /\ \E res \in secret_key_gen(params) :
         /\ sk' = res
         /\ draws' = draws + res.drawn
         /\ pc' = IF res.err = "none" THEN "main_public_key_gen" ELSE "main_failed"
    /\ UNCHANGED <<params, setupOut, pkgen, enc, dec, output>>

MainPublicKeyGen ==
    /\ pc = "main_public_key_gen"
    /\ \E res \in public_key_gen(params, sk.val) :
         /\ pkgen' = [err |-> res.err, val |-> res.val, A |-> res.A, e |-> res.e,
                      drawn |-> res.drawn, skArg |-> sk.val]
         /\ draws' = draws + res.drawn
         /\ pc' = IF res.err = "none" THEN "main_encrypt" ELSE "main_failed"
    /\ UNCHANGED <<params, setupOut, sk, enc, dec, output>>

MainEncrypt ==
    /\ pc = "main_encrypt"
    /\ \E res \in encrypt(params, pkgen.val, BIT) :
         /\ enc' = [err |-> res.err, val |-> res.val, r |-> res.r,
                    drawn |-> res.drawn, msg |-> BIT]
         /\ draws' = draws + res.drawn
         /\ pc' = IF res.err = "none" THEN "main_print" ELSE "main_failed"
    /\ UNCHANGED <<params, setupOut, sk, pkgen, dec, output>>

\* the first five print statements, one line each
MainPrint ==
    /\ pc = "main_print"
    /\ output' = Append(output, OutputLine(Len(output) + 1))
    /\ pc' = IF Len(output) + 1 = 5 THEN "main_decrypt" ELSE "main_print"
    /\ UNCHANGED <<params, setupOut, sk, pkgen, enc, dec, draws>>

\* the argument of the last print statement is evaluated before it prints
MainDecrypt ==
    /\ pc = "main_decrypt"
    /\ LET res == decrypt(params, sk.val, enc.val)
       IN  /\ dec' = [err |-> res.err, val |-> res.val,
                      skArg |-> sk.val, ctArg |-> enc.val]
           /\ pc' = IF res.err = "none" THEN "main_print_decrypted" ELSE "main_failed"
    /\ UNCHANGED <<params, setupOut, sk, pkgen, enc, draws, output>>

MainPrintDecrypted ==
    /\ pc = "main_print_decrypted"
    /\ output' = Append(output, OutputLine(6))
    /\ pc' = "main_done"
    /\ UNCHANGED <<params, setupOut, sk, pkgen, enc, dec, draws>>

MainNext ==
    \/ MainSetup
    \/ MainSecretKeyGen
    \/ MainPublicKeyGen
    \/ MainEncrypt
    \/ MainPrint
    \/ MainDecrypt
    \/ MainPrintDecrypted

MainSpec == MainInit /\ [][MainNext]_vars

(***************************************************************************)
(* Properties.                                                             *)
(***************************************************************************)
\* a key secret_key_gen returned, a public key made for it, a ciphertext of a
\* message bit under that public key, and decrypt applied to the two
RoundTripRun ==
    /\ sk.err = "none"
    /\ pkgen.err = "none"
    /\ pkgen.skArg = sk.val
    /\ enc.err = "none"
    /\ dec.err # "not_called"
    /\ dec.skArg = sk.val
    /\ dec.ctArg = enc.val

\* C1: with q = 10, decrypt(params, sk, encrypt(params, pk, m)) returns m for
\* every bit m, every sk of secret_key_gen, every pk of public_key_gen for that
\* sk and every r drawn by encrypt; decrypt does not fail.
RoundTrip ==
    (RoundTripRun /\ params[1] = 10) => (dec.err = "none" /\ dec.val = enc.msg)

\* a round trip of the bit 1 where r selects a row with odd noise e
RoundTripWitness ==
    /\ RoundTripRun
    /\ params[1] = 10
    /\ params[3] >= 1
    /\ enc.msg = 1
    /\ dec.val = 1
    /\ \E i \in 1..Len(enc.r) : enc.r[i] = 1 /\ pkgen.e[i] % 2 = 1

\* C2: for sk returned by secret_key_gen, the assertion of public_key_gen does
\* not fail and every row i of the returned pk has
\* (pk[i] . sk) mod q = (2 e[i]) mod q for the e drawn in the call.
PublicKeyIdentity ==
    (sk.err = "none" /\ pkgen.err # "not_called")
        => /\ pkgen.err = "none"
           /\ pkgen.skArg = sk.val
           /\ \A i \in 1..params[4] :
                Dot(pkgen.val[i], sk.val) % params[1] = (2 * pkgen.e[i]) % params[1]

\* a public key for a generated secret key with nonzero A and nonzero noise
PublicKeyIdentityWitness ==
    /\ sk.err = "none"
    /\ pkgen.err = "none"
    /\ params[1] = 10
    /\ params[3] >= 1
    /\ \E i \in 1..params[4] : pkgen.e[i] # 0 /\ pkgen.A[i][1] # 0

\* C3: a secret key returned by secret_key_gen has length n + 1, element 0
\* equal to 1 and every other element in [0, q); for q >= 2 and n >= 0 the
\* call returns one.
SecretKeyShape ==
    /\ sk.err = "none"
         => /\ Len(sk.val) = params[3] + 1
            /\ Len(sk.val) >= 1
            /\ sk.val[1] = 1
            /\ \A i \in 2..Len(sk.val) : sk.val[i] \in 0..(params[1] - 1)
    /\ (sk.err # "not_called" /\ params[1] >= 2 /\ params[3] >= 0) => sk.err = "none"

\* a returned secret key with more than one element
SecretKeyShapeWitness ==
    /\ sk.err = "none"
    /\ params[1] = 10
    /\ Len(sk.val) = 3
    /\ sk.val[2] # sk.val[3]

\* C4: for every (bit_length, mod_size, base_value) setup returns
\* (q, d, n, N, chi) = (10, 10, 10, 70, 1) and does not fail.
SetupFixedTuple ==
    setupOut.err # "not_called"
        => (setupOut.err = "none" /\ setupOut.val = <<10, 10, 10, 70, 1>>)

\* C5: encrypt on a message outside {0, 1} fails with the AssertionError of
\* its first statement (the spec's InvalidMessage), returns no ciphertext,
\* draws no r, and leaves the parameters and the public key as they were.
InvalidMessageRejected ==
    [][(enc.err = "not_called" /\ enc'.err # "not_called" /\ enc'.msg \notin {0, 1})
         => /\ enc'.err = "AssertionError"
            /\ enc'.val = <<>>
            /\ enc'.r = <<>>
            /\ enc'.drawn = 0
            /\ draws' = draws
            /\ params' = params
            /\ pkgen' = pkgen]_vars

\* encrypt was called with the message 2
InvalidMessageWitness ==
    /\ enc.err = "AssertionError"
    /\ enc.msg = 2
    /\ pkgen.err = "none"

\* C6: decrypt on a ciphertext whose length differs from the secret key's
\* signals an error (the spec's DimensionMismatch) and returns no bit, a
\* ciphertext or key of length 1 included.
DimensionMismatchSignalled ==
    (dec.err # "not_called" /\ Len(dec.ctArg) # Len(dec.skArg))
        => (dec.err = "ValueError" /\ dec.val = -1)

\* C7: secret_key_gen fails whenever q <= 1 or n < 0, returns no key and has
\* drawn nothing from the random source.
InvalidParameterRejected ==
    (sk.err # "not_called" /\ (params[1] <= 1 \/ params[3] < 0))
        => (sk.err \notin {"none", "not_called"} /\ sk.val = <<>> /\ sk.drawn = 0)

\* b reduced as early as possible: every product and 2 e[i] reduced modulo q
\* before the sum
EarlyReducedB(A, e, s, q) ==
    [i \in 1..Len(A) |->
       (SumSeq([j \in 1..Len(A[i]) |-> (A[i][j] * s[j + 1]) % q])
          + ((2 * e[i]) % q)) % q]

\* C8: the returned pk has N rows of n + 1 entries in [0, q); in row i column
\* 0 is (sum_j A[i][j] sk[j+1] + 2 e[i]) mod q and column j in 1..n is
\* (-A[i][j-1]) mod q, for the A and e of the call; reducing b early gives
\* the same column 0.
PublicKeyMatrixShape ==
    pkgen.err = "none"
        => LET q == params[1]
               n == params[3]
               N == params[4]
               pk == pkgen.val
               A == pkgen.A
               s == pkgen.skArg
           IN  /\ Len(pk) = N
               /\ Len(A) = N
               /\ Len(pkgen.e) = N
               /\ \A i \in 1..N :
                    /\ Len(pk[i]) = n + 1
                    /\ Len(A[i]) = n
                    /\ \A j \in 1..(n + 1) : pk[i][j] \in 0..(q - 1)
                    /\ pk[i][1] =
                         (SumSeq([j \in 1..n |-> A[i][j] * s[j + 1]]) + 2 * pkgen.e[i]) % q
                    /\ pk[i][1] = EarlyReducedB(A, pkgen.e, s, q)[i]
                    /\ \A j \in 1..n : pk[i][j + 1] = (0 - A[i][j]) % q

\* a returned pk whose b needed the reduction and whose -A is not zero
PublicKeyMatrixShapeWitness ==
    /\ pkgen.err = "none"
    /\ params[3] >= 1
    /\ \E i \in 1..Len(pkgen.val) :
         /\ pkgen.A[i][1] # 0
         /\ Dot(pkgen.A[i], Tail(pkgen.skArg)) + 2 * pkgen.e[i] >= params[1]

\* the assembled matrix of a call disagrees with 2 e in some row
BrokenKey ==
    LET M == PublicKeyMatrix(pkgen.A, pkgen.e, pkgen.skArg, params[1])
    IN  \E i \in 1..Len(M) :
          Dot(M[i], pkgen.skArg) % params[1] # (2 * pkgen.e[i]) % params[1]

\* C9: for every sk of length n + 1 passed in, element 0 equal to 1 or not:
\* if a row of the assembled matrix has (pk[i] . sk) mod q # (2 e[i]) mod q
\* the call fails with the AssertionError of line 78 (the spec's
\* CorrectnessViolation) and returns no pk, having drawn A and e once only.
NoBrokenKeyReturned ==
    (pkgen.err # "not_called" /\ pkgen.A # <<>> /\ Len(pkgen.skArg) = params[3] + 1)
        => /\ BrokenKey => (pkgen.err = "AssertionError" /\ pkgen.val = <<>>)
           /\ pkgen.err = "none" => ~BrokenKey
           /\ pkgen.drawn = params[4] * params[3] + params[4]

\* a call on a key with element 0 # 1 that the check stopped although one row agreed
NoBrokenKeyWitness ==
    /\ pkgen.err = "AssertionError"
    /\ pkgen.skArg[1] # 1
    /\ BrokenKey
    /\ LET M == PublicKeyMatrix(pkgen.A, pkgen.e, pkgen.skArg, params[1])
       IN  \E i \in 1..Len(M) :
             Dot(M[i], pkgen.skArg) % params[1] = (2 * pkgen.e[i]) % params[1]

OutputLabels ==
    <<"Message bit:", "Public key [0]:", "Public key [1]:", "Secret key:",
      "Ciphertext:", "Decrypted bit:">>

====
